---- MODULE Spec2Model ----
(***************************************************************************)
(* A model of the video data pipeline of jafar:                            *)
(*   - utils/dataloader.py: get_dataloader and the tf.data stages it       *)
(*     chains (shard, interleave, per-file parse/filter/sample, shuffle,   *)
(*     repeat, batch, prefetch), for one rank of a multi-process job;      *)
(*   - utils/preprocess_video_to_npy.py: main, preprocess_video and        *)
(*     get_meta_data (the offline transcoding and indexing job).           *)
(* The tf.data, multiprocessing, os and numpy operations are modelled by   *)
(* their library semantics at the place the source calls them.             *)
(***************************************************************************)
EXTENDS Integers, Sequences, FiniteSets, TLC

\* ------------------------------------------------------------------ bounds
MaxFiles == 2
MaxProcs == 2
MaxGBS == 2
PrefetchDepth == 1
MaxList == 4
MaxShards == 3
MaxEpisodeLen == 3
MaxSeqLen == 2
MaxDim == 2
MaxVideos == 2
MaxFrames == 2
MaxCpus == 2

\* Values the loader's arguments are drawn from.
SeqLens == {2}
ShuffleSizes == {0, 2}
CycleLengths == {1, 2}

\* Frame geometry handed to get_dataloader (image_h, image_w, image_c).
image_h == 1
image_w == 2
image_c == 1

\* Args of preprocess_video_to_npy.py
target_width == 160
target_height == 90

\* The largest 8-bit value, by which _tf_process_episode divides.
PixelMax == 255

VARIABLES
    \* ---- sharding of a file list over all ranks
    file_list,              \* the list handed to from_tensor_slices
    shard_count,            \* num_shards
    shards,                 \* rank -> its shard, for the ranks that computed it
    \* ---- one serialized record through parse, filter and sample
    ep_args,                \* seq_len, image_h, image_w, image_c
    ep_record,              \* the serialized record
    ep_pc,                  \* "record" | "InvalidArgument" | "tensor" | "dropped" | "kept" | "window"
    ep_tensor,              \* the parsed episode tensor
    ep_start,               \* the start index drawn
    ep_window,              \* the window produced
    \* ---- offline job (preprocess_video_to_npy.main)
    listing,                \* os.listdir(args.input_path), with what ffmpeg makes of each file
    num_cpus,               \* mp.cpu_count()
    out_dir,                \* the output directory: whether it exists, file name -> content
    start_dir,              \* the output directory as main found it (history)
    mpc,                    \* main: "start" | "convert" | "index" | "save" | "write" | "done" | an exception
    tasks,                  \* the preprocess_video calls of the first pool
    results,                \* what the first starmap returned
    itasks,                 \* the get_meta_data calls of the second pool
    \* ---- online loader (get_dataloader), one rank
    args,                   \* the arguments of get_dataloader
    disk,                   \* file -> the serialized records it holds
    num_processes,          \* jax.process_count()
    process_id,             \* jax.process_index()
    pc,                     \* "call" | "ValueError" | "AssertionError" | "iter"
    per_process_batch_size,
    shard,                  \* the files of this rank, in list order
    nextFile,               \* interleave: position in shard of the next file to open
    open,                   \* interleave: the open per-file streams
    opened,                 \* files opened so far (history)
    buf,                    \* shuffle buffer
    acc,                    \* batch under construction
    prefetch,               \* prefetch buffer: batches, errors, end of sequence
    pass,                   \* parity of the current pass of repeat
    first_call,             \* repeat: no element returned yet in this pass
    done,                   \* repeat returned end of sequence
    consumer,               \* "idle" | "waiting" | "raised" | "stopped"
    delivered,              \* the batch the last next() returned
    errRead                 \* a malformed record has been parsed (history)

loaderVars == <<args, disk, num_processes, process_id, pc, per_process_batch_size,
                shard, nextFile, open, opened, buf, acc, prefetch, pass,
                first_call, done, consumer, delivered, errRead>>

shardVars == <<file_list, shard_count, shards>>

episodeVars == <<ep_args, ep_record, ep_pc, ep_tensor, ep_start, ep_window>>

offlineVars == <<listing, num_cpus, out_dir, start_dir, mpc, tasks, results, itasks>>

vars == <<loaderVars, shardVars, episodeVars, offlineVars>>

\* A step of one part leaves the other parts alone.
LoaderOnly == UNCHANGED <<shardVars, episodeVars, offlineVars>>
ShardOnly == UNCHANGED <<loaderVars, episodeVars, offlineVars>>
EpisodeOnly == UNCHANGED <<loaderVars, shardVars, offlineVars>>
OfflineOnly == UNCHANGED <<loaderVars, shardVars, episodeVars>>

\* The state of each part while another part is the one under study.
LoaderIdle ==
    /\ args = <<>> /\ disk = <<>> /\ num_processes = 1 /\ process_id = 0
    /\ pc = "idle" /\ per_process_batch_size = 0 /\ shard = <<>> /\ nextFile = 1
    /\ open = {} /\ opened = {} /\ buf = {} /\ acc = <<>> /\ prefetch = <<>>
    /\ pass = 0 /\ first_call = TRUE /\ done = FALSE /\ consumer = "idle"
    /\ delivered = <<>> /\ errRead = FALSE

ShardIdle == file_list = <<>> /\ shard_count = 1 /\ shards = <<>>

EpisodeIdle ==
    /\ ep_args = <<>> /\ ep_record = <<>> /\ ep_pc = "idle"
    /\ ep_tensor = <<>> /\ ep_start = 0 /\ ep_window = <<>>

OfflineIdle ==
    /\ listing = <<>> /\ num_cpus = 1 /\ out_dir = <<>> /\ start_dir = <<>>
    /\ mpc = "idle"
    /\ tasks = <<>> /\ results = <<>> /\ itasks = <<>>

\* ------------------------------------------------------- serialized records
\* A serialized record: its declared sequence_length and the byte length of
\* raw_video.  It is well formed when the bytes fill the declared shape.
FrameSize(h, w, c) == h * w * c

Record(n, bytes) == [sequence_length |-> n, raw_len |-> bytes]

WellFormed(n) == Record(n, n * FrameSize(image_h, image_w, image_c))

\* The records the files of the corpus are made of: an episode shorter than
\* the window, one of exactly the window's length, a longer one, and a record
\* whose bytes do not fill the shape it declares.
ShortEpisode == WellFormed(1)
ExactEpisode == WellFormed(2)
LongEpisode == WellFormed(3)
Malformed == Record(2, 3 * FrameSize(image_h, image_w, image_c))

\* The contents a corpus file is drawn from.
FileContents ==
    { <<ShortEpisode>>, <<ShortEpisode, LongEpisode>>,
      <<ExactEpisode, LongEpisode>>, <<Malformed, ExactEpisode>> }

\* ------------------------------------------------------------ _parse_tfrecord_fn
\* tf.reshape(decode_raw(raw_video), (sequence_length, image_h, image_w, image_c))
\* succeeds exactly when the byte count equals the product of the shape.
\* (mutant) the reshape accepts any byte count
ParseOkAlways(rec, h, w, c) == TRUE

ParseOk(rec, h, w, c) == rec.raw_len = rec.sequence_length * FrameSize(h, w, c)

\* The episode tensor's first dimension after a successful parse.
EpisodeLen(rec) == rec.sequence_length

\* (mutant) an episode of exactly seq_len frames filtered out
FilterShortEpisodesStrict(len, seq_len) == len > seq_len

\* filter_short_episodes
FilterShortEpisodes(len, seq_len) == len >= seq_len

\* ------------------------------------------------------------ dataset.shard
\* (mutant) 1-based positions taken mod n
RECURSIVE ShardFromOneBased(_, _, _, _)
ShardFromOneBased(list, n, index, j) ==
    IF j > Len(list) THEN <<>>
    ELSE IF j % n = index
         THEN <<list[j]>> \o ShardFromOneBased(list, n, index, j + 1)
         ELSE ShardFromOneBased(list, n, index, j + 1)

RECURSIVE ShardFrom(_, _, _, _)
ShardFrom(list, n, index, j) ==
    IF j > Len(list) THEN <<>>
    ELSE IF (j - 1) % n = index
         THEN <<list[j]>> \o ShardFrom(list, n, index, j + 1)
         ELSE ShardFrom(list, n, index, j + 1)

\* Dataset.from_tensor_slices(list).shard(num_shards, index): the elements at
\* 0-based positions j with j mod num_shards = index, in order.
Shard(list, num_shards, index) == ShardFrom(list, num_shards, index, 1)

\* ------------------------------------------------------------ interleave
\* Drop the streams that are at end of file and open the next files of the
\* shard while a cycle slot is free.  Returns <<open, nextFile, opened>>.
RECURSIVE Refill(_, _, _, _, _, _)
Refill(o, nf, od, sh, dk, cl) ==
    LET live == { s \in o : s.pos <= Len(dk[s.file]) }
    IN  IF live # o THEN Refill(live, nf, od, sh, dk, cl)
        ELSE IF Cardinality(o) < cl /\ nf <= Len(sh)
             THEN Refill(o \cup { [file |-> sh[nf], pos |-> 1] }, nf + 1,
                         od \cup { sh[nf] }, sh, dk, cl)
             ELSE <<o, nf, od>>

\* (mutant) the pass taken to be over once the last file has been opened
ExhaustedEarly == nextFile > Len(shard)

\* The interleave is at its end: no stream open and no file left to open.
Exhausted == open = {} /\ nextFile > Len(shard)

Window(s) == [file |-> s.file, rec |-> s.pos, pass |-> pass]

\* ------------------------------------------------------------ Init
LoaderInit ==
    /\ \E n \in 0..MaxFiles :
         /\ \E sl \in SeqLens, g \in 1..MaxGBS, sb \in ShuffleSizes, cl \in CycleLengths :
              args = [tfrecord_paths |-> [i \in 1..n |-> i],
                      seq_len |-> sl,
                      global_batch_size |-> g,
                      shuffle_buffer_size |-> sb,
                      cycle_length |-> cl]
         /\ disk \in [1..n -> FileContents]
    /\ num_processes \in 1..MaxProcs
    /\ process_id \in 0..(num_processes - 1)
    /\ pc = "call"
    /\ per_process_batch_size = 0
    /\ shard = <<>>
    /\ nextFile = 1
    /\ open = {}
    /\ opened = {}
    /\ buf = {}
    /\ acc = <<>>
    /\ prefetch = <<>>
    /\ pass = 0
    /\ first_call = TRUE
    /\ done = FALSE
    /\ consumer = "idle"
    /\ delivered = <<>>
    /\ errRead = FALSE
    /\ ShardIdle /\ EpisodeIdle /\ OfflineIdle

\* ------------------------------------------------------------ get_dataloader
\* (mutant) the divisibility assertion left out
ConfigCheckNoAssert(paths, gbs, n) ==
    IF paths = <<>> THEN "ValueError" ELSE "iter"

\* The checks at the head of get_dataloader, in their order.
ConfigCheck(paths, gbs, n) ==
    IF paths = <<>> THEN "ValueError"
    ELSE IF gbs % n # 0 THEN "AssertionError"
    ELSE "iter"

\* (mutant) the global batch size used as the per-process one
PerProcessBatchSizeGlobal(gbs, n) == gbs

PerProcessBatchSize(gbs, n) == gbs \div n

GetDataloader ==
    /\ pc = "call"
    /\ pc' = ConfigCheck(args.tfrecord_paths, args.global_batch_size, num_processes)
    /\ IF pc' = "iter"
       THEN /\ per_process_batch_size' = PerProcessBatchSize(args.global_batch_size, num_processes)
            /\ shard' = Shard(args.tfrecord_paths, num_processes, process_id)
       ELSE UNCHANGED <<per_process_batch_size, shard>>
    /\ UNCHANGED <<args, disk, num_processes, process_id, nextFile, open, opened,
                   buf, acc, prefetch, pass, first_call, done, consumer,
                   delivered, errRead>>
    /\ LoaderOnly

\* ------------------------------------------------------------ the stream
\* The prefetch thread pulls from batch while its buffer has room.
Demand == pc = "iter" /\ ~done /\ Len(prefetch) < PrefetchDepth

Shuffling == args.shuffle_buffer_size > 0

\* dataset.batch(per_process_batch_size, drop_remainder=True) fed one window
\* returned by repeat: a full batch goes to the prefetch buffer.
ToBatch(w) ==
    LET grown == Append(acc, w)
    IN  /\ first_call' = FALSE
        /\ IF Len(grown) = per_process_batch_size
           THEN /\ prefetch' = Append(prefetch, [kind |-> "batch", windows |-> grown])
                /\ acc' = <<>>
           ELSE /\ acc' = grown
                /\ UNCHANGED prefetch

\* interleave starts a pass lazily: the first pull opens the first files.
StartPass ==
    /\ Demand
    /\ open = {} /\ nextFile = 1 /\ Len(shard) > 0
    /\ LET r == Refill({}, 1, opened, shard, disk, args.cycle_length)
       IN  open' = r[1] /\ nextFile' = r[2] /\ opened' = r[3]
    /\ UNCHANGED <<args, disk, num_processes, process_id, pc, per_process_batch_size,
                   shard, buf, acc, prefetch, pass, first_call, done, consumer,
                   delivered, errRead>>
    /\ LoaderOnly

\* One record of one open stream goes through parse, filter and sample.
ReadRecord(s) ==
    /\ Demand
    /\ s \in open
    /\ Shuffling => Cardinality(buf) < args.shuffle_buffer_size
    /\ LET rec == disk[s.file][s.pos]
           adv == (open \ {s}) \cup { [file |-> s.file, pos |-> s.pos + 1] }
           r   == Refill(adv, nextFile, opened, shard, disk, args.cycle_length)
       IN  /\ open' = r[1] /\ nextFile' = r[2] /\ opened' = r[3]
           /\ IF ~ParseOk(rec, image_h, image_w, image_c)
              THEN \* the error goes up through every stage to the prefetch buffer;
                   \* batch loses the windows it had collected
                   /\ errRead' = TRUE
                   /\ acc' = <<>>
                   /\ prefetch' = Append(prefetch, [kind |-> "error", windows |-> <<>>])
                   /\ UNCHANGED <<buf, first_call>>
              ELSE IF ~FilterShortEpisodes(EpisodeLen(rec), args.seq_len)
              THEN UNCHANGED <<buf, acc, prefetch, first_call, errRead>>
              ELSE \E start_idx \in 0..(EpisodeLen(rec) - args.seq_len) :
                     IF Shuffling
                     THEN /\ buf' = buf \cup { Window(s) }
                          /\ UNCHANGED <<acc, prefetch, first_call, errRead>>
                     ELSE /\ ToBatch(Window(s))
                          /\ UNCHANGED <<buf, errRead>>
    /\ UNCHANGED <<args, disk, num_processes, process_id, pc, per_process_batch_size,
                   shard, pass, done, consumer, delivered>>
    /\ LoaderOnly

\* (mutant) the window returned stays in the buffer
ShuffleEmitKeeps ==
    /\ Demand
    /\ Shuffling
    /\ buf # {}
    /\ Cardinality(buf) = args.shuffle_buffer_size \/ Exhausted
    /\ \E w \in buf : ToBatch(w)
    /\ UNCHANGED <<args, disk, num_processes, process_id, pc, per_process_batch_size,
                   shard, nextFile, open, opened, buf, pass, done, consumer, delivered,
                   errRead>>
    /\ LoaderOnly

\* shuffle returns one window of its buffer, once the buffer is full or the
\* pass has nothing left to fill it with.
ShuffleEmit ==
    /\ Demand
    /\ Shuffling
    /\ buf # {}
    /\ Cardinality(buf) = args.shuffle_buffer_size \/ Exhausted
    /\ \E w \in buf :
         /\ buf' = buf \ {w}
         /\ ToBatch(w)
    /\ UNCHANGED <<args, disk, num_processes, process_id, pc, per_process_batch_size,
                   shard, nextFile, open, opened, pass, done, consumer, delivered,
                   errRead>>
    /\ LoaderOnly

\* (mutant) repeat(1): the stream ends with its first pass
RepeatOnce ==
    /\ Demand
    /\ Exhausted /\ buf = {}
    /\ done' = TRUE
    /\ acc' = <<>>
    /\ prefetch' = Append(prefetch, [kind |-> "end", windows |-> <<>>])
    /\ UNCHANGED <<pass, nextFile, first_call>>
    /\ UNCHANGED <<args, disk, num_processes, process_id, pc, per_process_batch_size,
                   shard, open, opened, buf, consumer, delivered, errRead>>
    /\ LoaderOnly

\* (mutant) the batch under construction dropped at the end of a pass
RepeatDropsRemainder ==
    /\ Demand
    /\ Exhausted /\ buf = {}
    /\ IF first_call
       THEN /\ done' = TRUE
            /\ prefetch' = Append(prefetch, [kind |-> "end", windows |-> <<>>])
            /\ UNCHANGED <<pass, nextFile, first_call>>
       ELSE /\ pass' = 1 - pass
            /\ first_call' = TRUE
            /\ nextFile' = 1
            /\ UNCHANGED <<done, prefetch>>
    /\ acc' = <<>>
    /\ UNCHANGED <<args, disk, num_processes, process_id, pc, per_process_batch_size,
                   shard, open, opened, buf, consumer, delivered, errRead>>
    /\ LoaderOnly

\* repeat(None) at the end of a pass: a pass that returned nothing ends the
\* stream, any other pass is followed by a fresh one.
RepeatNext ==
    /\ Demand
    /\ Exhausted /\ buf = {}
    /\ IF first_call
       THEN /\ done' = TRUE
            /\ acc' = <<>>
            /\ prefetch' = Append(prefetch, [kind |-> "end", windows |-> <<>>])
            /\ UNCHANGED <<pass, nextFile, first_call>>
       ELSE /\ pass' = 1 - pass
            /\ first_call' = TRUE
            /\ nextFile' = 1
            /\ UNCHANGED <<done, acc, prefetch>>
    /\ UNCHANGED <<args, disk, num_processes, process_id, pc, per_process_batch_size,
                   shard, open, opened, buf, consumer, delivered, errRead>>
    /\ LoaderOnly

\* The consumer calls next() on the iterator ...
Request ==
    /\ pc = "iter"
    /\ consumer = "idle"
    /\ consumer' = "waiting"
    /\ delivered' = <<>>
    /\ UNCHANGED <<args, disk, num_processes, process_id, pc, per_process_batch_size,
                   shard, nextFile, open, opened, buf, acc, prefetch, pass,
                   first_call, done, errRead>>
    /\ LoaderOnly

\* ... and the call returns the head of the prefetch buffer.
Deliver ==
    /\ consumer = "waiting"
    /\ prefetch # <<>>
    /\ LET e == Head(prefetch)
       IN  /\ consumer' = CASE e.kind = "batch" -> "idle"
                            [] e.kind = "error" -> "raised"
                            [] OTHER -> "stopped"
           /\ delivered' = e.windows
    /\ prefetch' = Tail(prefetch)
    /\ UNCHANGED <<args, disk, num_processes, process_id, pc, per_process_batch_size,
                   shard, nextFile, open, opened, buf, acc, pass, first_call,
                   done, errRead>>
    /\ LoaderOnly
Pipeline ==
    \/ StartPass
    \/ \E s \in open : ReadRecord(s)
    \/ ShuffleEmit
    \/ RepeatNext

LoaderNext ==
    \/ GetDataloader
    \/ Pipeline
    \/ Request
    \/ Deliver

SpecLoader ==
    LoaderInit /\ [][LoaderNext]_vars /\ WF_vars(Pipeline) /\ WF_vars(Deliver)

\* ============================================================ sharding
\* from_tensor_slices(file_list).shard(shard_count, r), as every rank of a job
\* computes it from the same list.
RECURSIVE InjectiveSeqs(_, _)
InjectiveSeqs(S, n) ==
    IF n = 0 THEN { <<>> }
    ELSE LET shorter == InjectiveSeqs(S, n - 1)
         IN  shorter \cup
             UNION { { Append(q, x) : x \in S \ { q[i] : i \in DOMAIN q } } :
                     q \in { t \in shorter : Len(t) = n - 1 } }

ShardInit ==
    /\ file_list \in InjectiveSeqs(1..MaxList, MaxList)
    /\ shard_count \in 1..MaxShards
    /\ shards = <<>>
    /\ LoaderIdle /\ EpisodeIdle /\ OfflineIdle

\* Rank r builds its dataset: lines 126-127 of get_dataloader.
ShardRank(r) ==
    /\ r \notin DOMAIN shards
    /\ shards' = [x \in DOMAIN shards \cup {r} |->
                    IF x = r THEN Shard(file_list, shard_count, r) ELSE shards[x]]
    /\ UNCHANGED <<file_list, shard_count>>
    /\ ShardOnly
ShardNext == \E r \in 0..(shard_count - 1) : ShardRank(r)

SpecShard == ShardInit /\ [][ShardNext]_vars

\* ============================================================ one record
\* The bytes of raw_video: byte i is (base + i) mod 256.
RawVideo(len, base) == [i \in 1..len |-> (base + i - 1) % 256]

ByteBases == {0, 200, 253}

EpisodeInit ==
    /\ \E sl \in 1..MaxSeqLen, h \in 1..MaxDim, w \in 1..MaxDim, c \in {1, 3} :
         /\ ep_args = [seq_len |-> sl, image_h |-> h, image_w |-> w, image_c |-> c]
         /\ \E n \in 1..MaxEpisodeLen, extra \in {0, 1}, base \in ByteBases :
              ep_record = [sequence_length |-> n,
                           raw_video |-> RawVideo(n * FrameSize(h, w, c) + extra, base)]
    /\ ep_pc = "record"
    /\ ep_tensor = <<>>
    /\ ep_start = 0
    /\ ep_window = <<>>
    /\ LoaderIdle /\ ShardIdle /\ OfflineIdle

\* tf.io.decode_raw(raw_video, out_type=tf.uint8): one value per byte.
DecodeRaw(bytes) == [i \in DOMAIN bytes |-> bytes[i] % 256]

\* _parse_tfrecord_fn: the reshape to (sequence_length, image_h, image_w,
\* image_c) fails unless the element count is the product of the shape.
ParseRecord ==
    /\ ep_pc = "record"
    /\ LET rec == [sequence_length |-> ep_record.sequence_length,
                   raw_len |-> Len(ep_record.raw_video)]
       IN  IF ParseOk(rec, ep_args.image_h, ep_args.image_w, ep_args.image_c)
           THEN /\ ep_pc' = "tensor"
                /\ ep_tensor' = [shape |-> <<ep_record.sequence_length, ep_args.image_h,
                                            ep_args.image_w, ep_args.image_c>>,
                                 data |-> DecodeRaw(ep_record.raw_video)]
           ELSE /\ ep_pc' = "InvalidArgument"
                /\ UNCHANGED ep_tensor
    /\ UNCHANGED <<ep_args, ep_record, ep_start, ep_window>>
    /\ EpisodeOnly

\* dataset.filter(filter_short_episodes)
FilterEpisode ==
    /\ ep_pc = "tensor"
    /\ ep_pc' = IF FilterShortEpisodes(ep_tensor.shape[1], ep_args.seq_len)
                THEN "kept" ELSE "dropped"
    /\ UNCHANGED <<ep_args, ep_record, ep_tensor, ep_start, ep_window>>
    /\ EpisodeOnly

\* episode_tensor[start_idx : start_idx + seq_len]: the frames at 0-based
\* positions start_idx .. start_idx + seq_len - 1 that exist.
SliceFrames(t, start_idx, seq_len) ==
    LET fs == t.shape[2] * t.shape[3] * t.shape[4]
        first == IF start_idx < t.shape[1] THEN start_idx ELSE t.shape[1]
        last == IF start_idx + seq_len < t.shape[1] THEN start_idx + seq_len ELSE t.shape[1]
    IN  [shape |-> <<last - first, t.shape[2], t.shape[3], t.shape[4]>>,
         data |-> SubSeq(t.data, first * fs + 1, last * fs)]

\* (mutant) division by 128 instead of 255
NormalizeBy128(v) == [num |-> v, den |-> 128]

\* tf.cast(seq, tf.float32) / 255.0, as the fraction v / 255
Normalize(v) == [num |-> v, den |-> PixelMax]

\* (mutant) maxval = max_start_idx: the last start index never drawn
StartIndicesExclusive(current_episode_len, seq_len) ==
    0..(current_episode_len - seq_len - 1)

\* tf.random.uniform(shape=(), minval=0, maxval=max_start_idx + 1): an
\* integer in [0, max_start_idx]
StartIndices(current_episode_len, seq_len) == 0..(current_episode_len - seq_len)

\* _tf_process_episode
ProcessEpisode ==
    /\ ep_pc = "kept"
    /\ \E start_idx \in StartIndices(ep_tensor.shape[1], ep_args.seq_len) :
         LET seq == SliceFrames(ep_tensor, start_idx, ep_args.seq_len)
             want == <<ep_args.seq_len, ep_args.image_h, ep_args.image_w, ep_args.image_c>>
         IN  /\ ep_start' = start_idx
             /\ IF Len(seq.data) = want[1] * want[2] * want[3] * want[4]
                THEN /\ ep_pc' = "window"
                     /\ ep_window' = [shape |-> want,
                                      data |-> [i \in DOMAIN seq.data |-> Normalize(seq.data[i])]]
                ELSE /\ ep_pc' = "InvalidArgument"
                     /\ UNCHANGED ep_window
    /\ UNCHANGED <<ep_args, ep_record, ep_tensor>>
    /\ EpisodeOnly
EpisodeNext ==
    \/ ParseRecord
    \/ FilterEpisode
    \/ ProcessEpisode

SpecEpisode == EpisodeInit /\ [][EpisodeNext]_vars

\* ============================================================ offline job
Name(stem, ext) == [stem |-> stem, ext |-> ext]

\* What os.listdir(args.input_path) may hold, in the order it lists them.
InputOrder ==
    << Name("a", "mp4"), Name("a", "webm"), Name("b", "mp4"), Name("notes", "txt") >>

\* What ffmpeg makes of an input: an error, or the bytes on its stdout.
frame_size == target_height * target_width * 3

DecodeOutcomes ==
    { [ok |-> FALSE, bytes |-> 0] } \cup
    { [ok |-> TRUE, bytes |-> k * frame_size] : k \in 1..MaxFrames } \cup
    { [ok |-> TRUE, bytes |-> frame_size + 1] }

Array(n) == [kind |-> "array", shape |-> <<n, target_height, target_width, 3>>, value |-> <<>>]
Corrupt == [kind |-> "corrupt", shape |-> <<>>, value |-> <<>>]
Stored(kind, value) == [kind |-> kind, shape |-> <<>>, value |-> value]

MetadataName == Name("metadata", "npy")
ManifestName == Name("failed_videos", "json")

NoFiles == [f \in {} |-> Corrupt]

\* The index an earlier run left behind.
StaleIndex == Stored("index", << [path |-> Name("a", "npy"), length |-> 1] >>)

\* The output directory before the run: absent, empty, or left by an
\* earlier run (an episode file, readable or not, and an index).
InitialOutDirs ==
    { [exists |-> FALSE, files |-> NoFiles],
      [exists |-> TRUE, files |-> NoFiles],
      [exists |-> TRUE, files |-> [f \in { Name("z", "npy") } |-> Array(1)]],
      [exists |-> TRUE,
       files |-> [f \in { Name("z", "npy"), MetadataName } |->
                    IF f = MetadataName THEN StaleIndex ELSE Corrupt]],
      [exists |-> TRUE,
       files |-> [f \in { Name("a", "npy"), MetadataName } |->
                    IF f = MetadataName THEN StaleIndex ELSE Array(1)]] }

Put(dir, f, content) ==
    [exists |-> dir.exists,
     files |-> [g \in DOMAIN dir.files \cup {f} |-> IF g = f THEN content ELSE dir.files[g]]]

\* The subsequence of q at the positions in S.
RECURSIVE Pick(_, _, _)
Pick(q, S, i) ==
    IF i > Len(q) THEN <<>>
    ELSE IF i \in S THEN <<q[i]>> \o Pick(q, S, i + 1) ELSE Pick(q, S, i + 1)

OfflineInit ==
    /\ \E S \in { T \in SUBSET DOMAIN InputOrder : Cardinality(T) <= MaxVideos } :
         \E outs \in [S -> DecodeOutcomes] :
             /\ \A i \in S : InputOrder[i].ext = "txt" => ~outs[i].ok
             /\ listing = Pick([i \in DOMAIN InputOrder |->
                                  [name |-> InputOrder[i],
                                   out |-> IF i \in S THEN outs[i] ELSE [ok |-> FALSE, bytes |-> 0]]],
                               S, 1)
    /\ num_cpus \in 1..MaxCpus
    /\ out_dir \in InitialOutDirs
    /\ start_dir = out_dir
    /\ mpc = "start"
    /\ tasks = <<>>
    /\ results = <<>>
    /\ itasks = <<>>
    /\ LoaderIdle /\ ShardIdle /\ EpisodeIdle

\* in_filename.endswith(".mp4") or in_filename.endswith(".webm")
IsVideo(name) == name.ext \in {"mp4", "webm"}

\* main up to the first pool: pool_args of the videos of the listing.
MainStart ==
    /\ mpc = "start"
    /\ mpc' = "convert"
    /\ tasks' = LET vids == { i \in DOMAIN listing : IsVideo(listing[i].name) }
                    picked == Pick(listing, vids, 1)
                IN  [k \in DOMAIN picked |->
                       [in_filename |-> picked[k].name, out |-> picked[k].out,
                        st |-> "queued", n_frames |-> 0, ok |-> FALSE]]
    /\ UNCHANGED <<listing, num_cpus, start_dir, out_dir, results, itasks>>
    /\ OfflineOnly
Running == { k \in DOMAIN tasks : tasks[k].st \in {"check", "mkdir", "save"} }

\* os.path.splitext(os.path.basename(in_filename))[0] + ".npy"
OutputFile(in_filename) == Name(in_filename.stem, "npy")

\* n_frames = len(out) // frame_size
NFrames(bytes) == bytes \div frame_size

\* (mutant) the buffer cut to n whole frames instead of rejected
ReshapeTruncates(bytes, n) == TRUE

\* np.frombuffer(out, np.uint8).reshape(n_frames, target_height, target_width, 3)
\* raises unless the buffer holds exactly that many values.
ReshapeOk(bytes, n) == bytes = n * target_height * target_width * 3

\* preprocess_video, lines 23-36: ffmpeg, the frame count and the reshape.
\* Any exception makes the call return (in_filename, False).
Decode(k) ==
    /\ mpc = "convert"
    /\ tasks[k].st = "queued"
    /\ Cardinality(Running) < num_cpus
    /\ LET out == tasks[k].out
           n == NFrames(out.bytes)
       IN  IF out.ok /\ ReshapeOk(out.bytes, n)
           THEN tasks' = [tasks EXCEPT ![k].st = "check", ![k].n_frames = n]
           ELSE tasks' = [tasks EXCEPT ![k].st = "done", ![k].ok = FALSE]
    /\ UNCHANGED <<listing, num_cpus, start_dir, out_dir, mpc, results, itasks>>
    /\ OfflineOnly

\* (mutant) the directory created without looking whether it is there
CheckDirSkipped(k) ==
    /\ tasks[k].st = "check"
    /\ tasks' = [tasks EXCEPT ![k].st = "mkdir"]
    /\ UNCHANGED <<listing, num_cpus, start_dir, out_dir, mpc, results, itasks>>
    /\ OfflineOnly

\* line 42: if not os.path.exists(os.path.dirname(output_file))
CheckDir(k) ==
    /\ tasks[k].st = "check"
    /\ tasks' = [tasks EXCEPT ![k].st = IF out_dir.exists THEN "save" ELSE "mkdir"]
    /\ UNCHANGED <<listing, num_cpus, start_dir, out_dir, mpc, results, itasks>>
    /\ OfflineOnly

\* line 43: os.makedirs raises FileExistsError when the directory is there.
Makedirs(k) ==
    /\ tasks[k].st = "mkdir"
    /\ IF out_dir.exists
       THEN /\ tasks' = [tasks EXCEPT ![k].st = "done", ![k].ok = FALSE]
            /\ UNCHANGED out_dir
       ELSE /\ tasks' = [tasks EXCEPT ![k].st = "save"]
            /\ out_dir' = [out_dir EXCEPT !.exists = TRUE]
    /\ UNCHANGED <<listing, num_cpus, start_dir, mpc, results, itasks>>
    /\ OfflineOnly

\* lines 45-47: np.save(output_file, frames); return in_filename, True
Save(k) ==
    /\ tasks[k].st = "save"
    /\ out_dir' = Put(out_dir, OutputFile(tasks[k].in_filename), Array(tasks[k].n_frames))
    /\ tasks' = [tasks EXCEPT ![k].st = "done", ![k].ok = TRUE]
    /\ UNCHANGED <<listing, num_cpus, start_dir, mpc, results, itasks>>
    /\ OfflineOnly

\* failed_videos = [result for result in results if not result[1]]
RECURSIVE FailedVideos(_)
FailedVideos(res) ==
    IF res = <<>> THEN <<>>
    ELSE IF ~Head(res)[2] THEN <<Head(res)>> \o FailedVideos(Tail(res))
         ELSE FailedVideos(Tail(res))

\* filename.endswith(".npy") and filename != "metadata.npy"
IsEpisodeFile(f) == f.ext = "npy" /\ f # MetadataName

Orderings(S) == { q \in InjectiveSeqs(S, Cardinality(S)) : Len(q) = Cardinality(S) }

\* (mutant) the map returns at the first failed call
StarmapShortCircuits(calls) ==
    \/ \A k \in DOMAIN calls : calls[k].st = "done"
    \/ \E k \in DOMAIN calls : calls[k].st = "done" /\ ~calls[k].ok

\* pool.starmap(preprocess_video, pool_args) returns once every call has
\* returned.
StarmapReturns(calls) == \A k \in DOMAIN calls : calls[k].st = "done"

\* main from the return of the first starmap to the second pool: the
\* results, the manifest (open() fails when the directory is missing), the
\* listing of the output directory.
JoinConvert ==
    /\ mpc = "convert"
    /\ StarmapReturns(tasks)
    /\ results' = [k \in DOMAIN tasks |-> <<tasks[k].in_filename, tasks[k].ok>>]
    /\ IF ~out_dir.exists
       THEN /\ mpc' = "FileNotFoundError"
            /\ UNCHANGED <<out_dir, itasks>>
       ELSE /\ mpc' = "index"
            /\ out_dir' = Put(out_dir, ManifestName, Stored("json", FailedVideos(results')))
            /\ \E order \in Orderings({ f \in DOMAIN out_dir.files : IsEpisodeFile(f) }) :
                 itasks' = [k \in DOMAIN order |->
                              [filename |-> order[k], st |-> "queued", length |-> 0]]
    /\ UNCHANGED <<listing, num_cpus, start_dir, tasks>>
    /\ OfflineOnly

\* (mutant) the second dimension taken for the length
GetMetaDataHeight(arr) == arr.shape[2]

\* get_meta_data: arr.shape[0]
GetMetaData(arr) == arr.shape[1]

\* One get_meta_data call in a pool worker: np.load(filepath, mmap_mode="r")
\* raises on a file that is no readable array.
Load(k) ==
    /\ mpc = "index"
    /\ itasks[k].st = "queued"
    /\ LET content == out_dir.files[itasks[k].filename]
       IN  IF content.kind = "array"
           THEN itasks' = [itasks EXCEPT ![k].st = "ok", ![k].length = GetMetaData(content)]
           ELSE itasks' = [itasks EXCEPT ![k].st = "error"]
    /\ UNCHANGED <<listing, num_cpus, start_dir, out_dir, mpc, tasks, results>>
    /\ OfflineOnly

\* (mutant) a failed lookup skipped instead of raised
StarmapSkips(calls) == FALSE

\* pool.starmap re-raises in the caller the exception of a call that failed.
StarmapRaises(calls) == \E k \in DOMAIN calls : calls[k].st = "error"

\* The metadata list main builds from what the second starmap returned.
Metadata(calls) ==
    LET got == Pick(calls, { k \in DOMAIN calls : calls[k].st = "ok" }, 1)
    IN  [k \in DOMAIN got |-> [path |-> got[k].filename, length |-> got[k].length]]

\* What open(file, "wb") leaves at the path until the data is written.
Truncated == Stored("truncated", <<>>)

\* main at the return of the second starmap: the exception of a failed
\* lookup leaves main; otherwise main goes on to save the index.
JoinIndex ==
    /\ mpc = "index"
    /\ \A k \in DOMAIN itasks : itasks[k].st # "queued"
    /\ mpc' = IF StarmapRaises(itasks) THEN "LoadError" ELSE "save"
    /\ UNCHANGED <<listing, num_cpus, start_dir, out_dir, tasks, results, itasks>>
    /\ OfflineOnly

\* line 112, np.save(.../metadata.npy, metadata): numpy opens the path
\* itself for writing, which creates the file or empties the one there ...
SaveIndexOpen ==
    /\ mpc = "save"
    /\ mpc' = "write"
    /\ out_dir' = Put(out_dir, MetadataName, Truncated)
    /\ UNCHANGED <<listing, num_cpus, start_dir, tasks, results, itasks>>
    /\ OfflineOnly

\* ... and then writes the array into it.
SaveIndexWrite ==
    /\ mpc = "write"
    /\ mpc' = "done"
    /\ out_dir' = Put(out_dir, MetadataName, Stored("index", Metadata(itasks)))
    /\ UNCHANGED <<listing, num_cpus, start_dir, tasks, results, itasks>>
    /\ OfflineOnly
OfflineNext ==
    \/ MainStart
    \/ \E k \in DOMAIN tasks : Decode(k)
    \/ \E k \in DOMAIN tasks : CheckDir(k)
    \/ \E k \in DOMAIN tasks : Makedirs(k)
    \/ \E k \in DOMAIN tasks : Save(k)
    \/ JoinConvert
    \/ \E k \in DOMAIN itasks : Load(k)
    \/ JoinIndex
    \/ SaveIndexOpen
    \/ SaveIndexWrite

SpecOffline == OfflineInit /\ [][OfflineNext]_vars

\* ============================================================ two calls
\* preprocess_video called twice, one call after the other, with the same
\* in_filename, output_path, target_width, target_height and target_fps.
\* ffmpeg is given the same file and the same filters both times and has
\* the same output.
TwiceInit ==
    /\ \E i \in { j \in DOMAIN InputOrder : IsVideo(InputOrder[j]) }, out \in DecodeOutcomes :
         /\ listing = << [name |-> InputOrder[i], out |-> out] >>
         /\ tasks = [k \in 1..2 |->
                       [in_filename |-> InputOrder[i], out |-> out,
                        st |-> "queued", n_frames |-> 0, ok |-> FALSE]]
    /\ num_cpus = 1
    /\ out_dir \in InitialOutDirs
    /\ start_dir = out_dir
    /\ mpc = "convert"
    /\ results = <<>>
    /\ itasks = <<>>
    /\ LoaderIdle /\ ShardIdle /\ EpisodeIdle

TwiceNext ==
    \/ \E k \in DOMAIN tasks : Decode(k)
    \/ \E k \in DOMAIN tasks : CheckDir(k)
    \/ \E k \in DOMAIN tasks : Makedirs(k)
    \/ \E k \in DOMAIN tasks : Save(k)

SpecTwice == TwiceInit /\ [][TwiceNext]_vars

\* ================================================================ claims
Range(q) == { q[i] : i \in DOMAIN q }

PrefetchedBatches == { prefetch[i].windows : i \in { k \in DOMAIN prefetch : prefetch[k].kind = "batch" } }

\* Every batch that has left the batch stage: waiting in the prefetch buffer
\* or handed to the consumer.
EmittedBatches == PrefetchedBatches \cup (IF delivered # <<>> THEN { delivered } ELSE {})

\* Every window anywhere in the stream or in the consumer's hands.
AllWindows ==
    buf \cup Range(acc) \cup UNION { Range(b) : b \in EmittedBatches }

RecordOf(w) == disk[w.file][w.rec]

\* The 1-based list positions of the files of this rank.
MyPositions ==
    { j \in DOMAIN args.tfrecord_paths : (j - 1) % num_processes = process_id }

\* C2: every batch emitted by the iterator holds exactly
\* global_batch_size / N windows, and the batch under construction holds fewer.
C2_BatchSize ==
    /\ \A b \in EmittedBatches : Len(b) * num_processes = args.global_batch_size
    /\ pc = "iter" => Len(acc) * num_processes < args.global_batch_size

C2_Witness ==
    /\ consumer = "idle" /\ delivered # <<>>
    /\ num_processes = 2
    /\ pass = 1

\* C4: with an empty path list, or a global batch size that N does not
\* divide, get_dataloader ends in an error and nothing is sharded, opened,
\* read or returned.
C4_FailsBeforeIO ==
    (args.tfrecord_paths = <<>> \/ args.global_batch_size % num_processes # 0)
        => /\ pc \in {"call", "ValueError", "AssertionError"}
           /\ args.tfrecord_paths = <<>> /\ pc # "call" => pc = "ValueError"
           /\ per_process_batch_size = 0
           /\ shard = <<>> /\ open = {} /\ opened = {}
           /\ buf = {} /\ acc = <<>> /\ prefetch = <<>>
           /\ consumer = "idle" /\ delivered = <<>>

C4_Witness ==
    /\ pc = "AssertionError"
    /\ args.global_batch_size = 1 /\ num_processes = 2

\* C5: no window anywhere in the stream comes from an episode shorter than
\* seq_len; reading such an episode adds no window and raises no error, and
\* reading a well-formed episode of seq_len frames or more adds its window.
C5_ShortDropped ==
    /\ [](\A w \in AllWindows : RecordOf(w).sequence_length >= args.seq_len)
    /\ [][\A s \in open :
            LET rec == disk[s.file][s.pos]
                wellFormed == rec.raw_len = rec.sequence_length * image_h * image_w * image_c
            IN  (s \notin open' /\ wellFormed) =>
                  IF rec.sequence_length < args.seq_len
                  THEN /\ AllWindows' = AllWindows
                       /\ prefetch' = prefetch /\ errRead' = errRead
                  ELSE [file |-> s.file, rec |-> s.pos, pass |-> pass] \in AllWindows'
         ]_vars

C5_Witness ==
    /\ \E w \in Range(delivered) :
         /\ w.rec = 2
         /\ disk[w.file][1].sequence_length < args.seq_len
         /\ disk[w.file][1].raw_len = disk[w.file][1].sequence_length * image_h * image_w * image_c
    /\ \E w \in Range(delivered) : RecordOf(w).sequence_length = args.seq_len

\* C9 as stated: the error of a malformed record never reaches the consumer.
C9_NeverRaised == consumer # "raised"

\* C9 as amended: a malformed record yields no window, its parse error is
\* kept in the stream until a next() call raises it to the consumer, and the
\* consumer gets no other exception.
C9_ErrorReachesConsumer ==
    /\ \A w \in AllWindows :
         RecordOf(w).raw_len = RecordOf(w).sequence_length * image_h * image_w * image_c
    /\ consumer = "raised" => errRead
    /\ errRead => \/ consumer = "raised"
                  \/ \E i \in DOMAIN prefetch : prefetch[i].kind = "error"

C9_Witness ==
    /\ consumer = "raised"
    /\ \E j \in MyPositions : disk[args.tfrecord_paths[j]][1] = Malformed

\* The corpus as a whole is non-empty and long enough: every file holds
\* records, all well formed and of seq_len frames or more.
CorpusSufficient ==
    /\ args.tfrecord_paths # <<>>
    /\ args.global_batch_size % num_processes = 0
    /\ \A j \in DOMAIN args.tfrecord_paths :
         LET recs == disk[args.tfrecord_paths[j]]
         IN  /\ recs # <<>>
             /\ \A k \in DOMAIN recs :
                  /\ recs[k].raw_len = recs[k].sequence_length * image_h * image_w * image_c
                  /\ recs[k].sequence_length >= args.seq_len

\* The rank's own shard yields a window in every pass and holds no malformed
\* record.
ShardSufficient ==
    /\ args.tfrecord_paths # <<>>
    /\ args.global_batch_size % num_processes = 0
    /\ \E j \in MyPositions :
         \E k \in DOMAIN disk[args.tfrecord_paths[j]] :
             disk[args.tfrecord_paths[j]][k].sequence_length >= args.seq_len
    /\ \A j \in MyPositions :
         \A k \in DOMAIN disk[args.tfrecord_paths[j]] :
             LET rec == disk[args.tfrecord_paths[j]][k]
             IN  rec.raw_len = rec.sequence_length * image_h * image_w * image_c

\* C3 as stated: with a non-empty, sufficiently long corpus the stream of a
\* rank never ends.
C3_NeverTerminates == CorpusSufficient => consumer # "stopped" /\ ~done

\* C3 as amended: when the rank's own shard yields a window, the stream never
\* ends and every request for the next batch eventually returns a full batch.
C3_AlwaysServes ==
    /\ [](ShardSufficient => ~done /\ consumer \in {"idle", "waiting"})
    /\ [](ShardSufficient /\ consumer = "waiting"
            => <>(consumer = "idle" /\ delivered # <<>>))

C3_Witness ==
    /\ ShardSufficient
    /\ consumer = "idle" /\ delivered # <<>>
    /\ \A w \in Range(delivered) : w.pass = 1
    /\ pass = 0

\* C1: once every rank has its shard, each file of the list is in the shard
\* of exactly one rank, the rank its 0-based list position is congruent to
\* mod N, and is there once; the shards hold nothing else.
C1_ShardsPartition ==
    DOMAIN shards = 0..(shard_count - 1) =>
        /\ \A j \in DOMAIN file_list :
             \A r \in DOMAIN shards :
                 Cardinality({ i \in DOMAIN shards[r] : shards[r][i] = file_list[j] })
                     = IF (j - 1) % shard_count = r THEN 1 ELSE 0
        /\ \A r \in DOMAIN shards : Range(shards[r]) \subseteq Range(file_list)

C1_Witness ==
    /\ DOMAIN shards = 0..(shard_count - 1)
    /\ shard_count = 3
    /\ Len(file_list) = 4
    /\ Len(shards[0]) = 2

\* C6: a window made by _tf_process_episode has shape (seq_len, image_h,
\* image_w, image_c), holds that many values, and each value v / 255 lies in
\* [0, 1], whatever the episode's length and the start drawn; sampling a
\* kept episode never fails.
C6_WindowShape ==
    /\ ep_pc = "InvalidArgument" => ep_tensor = <<>>
    /\ ep_pc = "window" =>
        /\ ep_window.shape = <<ep_args.seq_len, ep_args.image_h, ep_args.image_w, ep_args.image_c>>
        /\ Len(ep_window.data) = ep_args.seq_len * ep_args.image_h * ep_args.image_w * ep_args.image_c
        /\ \A i \in DOMAIN ep_window.data :
             LET x == ep_window.data[i]
             IN  x.den > 0 /\ 0 <= x.num /\ x.num <= x.den

C6_Witness ==
    /\ ep_pc = "window"
    /\ ep_record.sequence_length > ep_args.seq_len
    /\ ep_start > 0
    /\ \E i \in DOMAIN ep_window.data : ep_window.data[i].num = 255
    /\ \E i \in DOMAIN ep_window.data : ep_window.data[i].num = 0

\* The episode files of the output directory: the .npy files but the index.
EpisodeFiles == { f \in DOMAIN out_dir.files : f.ext = "npy" /\ f # MetadataName }

\* C7: with videos to transcode, some of which may fail to decode, the
\* transcoding job never ends with an exception; once the pool has
\* returned, every video has exactly one outcome and failed_videos.json
\* holds exactly the [input_path, false] pairs of the failed ones.
C7_TranscodingCompletes ==
    (\E i \in DOMAIN listing : listing[i].name.ext \in {"mp4", "webm"}) =>
    /\ mpc # "FileNotFoundError"
    /\ mpc \in {"index", "save", "write", "done", "LoadError"} =>
         /\ Len(results) = Cardinality({ i \in DOMAIN listing : listing[i].name.ext \in {"mp4", "webm"} })
         /\ ManifestName \in DOMAIN out_dir.files
         /\ LET failed == out_dir.files[ManifestName].value
            IN  /\ \A k \in DOMAIN failed : failed[k][2] = FALSE
                /\ \A k \in DOMAIN results :
                     ~results[k][2] <=> \E i \in DOMAIN failed : failed[i] = results[k]

\* C8: when the job is done, metadata.npy has exactly one entry for every
\* episode file of the output directory, and the entry's length is the first
\* dimension of the array stored there.
C8_IndexMatchesFiles ==
    mpc = "done" =>
        /\ MetadataName \in DOMAIN out_dir.files
        /\ LET index == out_dir.files[MetadataName].value
           IN  /\ Len(index) = Cardinality(EpisodeFiles)
               /\ { index[k].path : k \in DOMAIN index } = EpisodeFiles
               /\ \A k \in DOMAIN index :
                    /\ out_dir.files[index[k].path].kind = "array"
                    /\ index[k].length = out_dir.files[index[k].path].shape[1]

C8_Witness ==
    /\ mpc = "done"
    /\ LET index == out_dir.files[MetadataName].value
       IN  /\ Len(index) = 2
           /\ index[1].length # index[2].length
    /\ \E k \in DOMAIN results : results[k][2]

\* C10 as stated: with a file whose length cannot be read, the index is
\* still written, with the entries of the readable files and without the
\* failing one.
C10_ReadFailureIsLocal ==
    (mpc # "index" /\ \E k \in DOMAIN itasks : itasks[k].st = "error") =>
        /\ mpc = "done"
        /\ LET index == out_dir.files[MetadataName].value
           IN  { index[k].path : k \in DOMAIN index }
                 = { f \in EpisodeFiles : out_dir.files[f].kind = "array" }

\* C10 as amended: a file whose length cannot be read makes main end with
\* the exception of np.load, and metadata.npy is not written: the directory
\* holds no index, or the one an earlier run left.
C10_ReadFailureAborts ==
    /\ (mpc # "index" /\ \E k \in DOMAIN itasks : itasks[k].st = "error") => mpc = "LoadError"
    /\ mpc = "LoadError" =>
         /\ \E k \in DOMAIN itasks : itasks[k].st = "error"
         /\ MetadataName \in DOMAIN out_dir.files => out_dir.files[MetadataName] = StaleIndex

C10_Witness ==
    /\ mpc = "LoadError"
    /\ \E k \in DOMAIN itasks : itasks[k].st = "ok"
    /\ MetadataName \in DOMAIN out_dir.files

\* C11: whatever a reader finds at metadata.npy is a whole index: the one an
\* earlier run left, or this run's, written after every length lookup has
\* returned and holding all of their entries.
C11_IndexAtomic ==
    ((\E k \in DOMAIN results : results[k][2]) /\ MetadataName \in DOMAIN out_dir.files) =>
        LET found == out_dir.files[MetadataName]
        IN  \/ /\ MetadataName \in DOMAIN start_dir.files
               /\ found = start_dir.files[MetadataName]
            \/ /\ found.kind = "index"
               /\ \A k \in DOMAIN itasks : itasks[k].st = "ok"
               /\ Len(found.value) = Len(itasks)

\* C12: of two calls of preprocess_video on the same input, one after the
\* other, the second has the outcome of the first, writes the same path,
\* and leaves the output directory exactly as the first left it; a
\* successful call leaves at that path the array of the decoded frames.
C12_Idempotent ==
    /\ [](\A k \in DOMAIN tasks :
            /\ (tasks[k].st = "done" /\ tasks[k].ok) =>
                 LET f == [stem |-> tasks[k].in_filename.stem, ext |-> "npy"]
                 IN  /\ f \in DOMAIN out_dir.files
                     /\ out_dir.files[f].kind = "array"
                     /\ out_dir.files[f].shape[1] * target_height * target_width * 3
                          = tasks[k].out.bytes
            /\ \A j \in DOMAIN tasks :
                 (tasks[k].st = "done" /\ tasks[j].st = "done") => tasks[k].ok = tasks[j].ok)
    /\ [][(\E j \in DOMAIN tasks : tasks[j].st = "done") => out_dir' = out_dir]_vars

C12_Witness ==
    /\ Len(tasks) = 2 /\ tasks[1].in_filename = tasks[2].in_filename
    /\ \A k \in DOMAIN tasks : tasks[k].st = "done" /\ tasks[k].ok
    /\ ~start_dir.exists
    /\ num_cpus = 1

\* C13 as stated: every emitted batch holds windows of one pass only (the
\* windows left over at the end of a pass are dropped).
C13_BatchWithinPass ==
    \A b \in EmittedBatches : \A i, j \in DOMAIN b : b[i].pass = b[j].pass

\* C13 as amended: the end of a pass drops nothing.  The windows collected
\* for the next batch stay there when a pass ends, and a window leaves the
\* batch under construction only inside the full batch it completes (or
\* when an error or the end of the stream is passed on).
C13_RemainderCarried ==
    [][ /\ pass' # pass => (acc' = acc /\ prefetch' = prefetch /\ buf' = buf /\ ~done')
        /\ ~(Len(prefetch') > Len(prefetch) /\ prefetch'[Len(prefetch')].kind # "batch") =>
             \/ acc' = acc
             \/ Len(acc') = Len(acc) + 1 /\ SubSeq(acc', 1, Len(acc)) = acc
             \/ /\ acc' = <<>>
                /\ Len(prefetch') = Len(prefetch) + 1
                /\ prefetch'[Len(prefetch')].kind = "batch"
                /\ LET b == prefetch'[Len(prefetch')].windows
                   IN  Len(b) = Len(acc) + 1 /\ SubSeq(b, 1, Len(acc)) = acc
      ]_vars

C13_Witness ==
    /\ consumer = "idle"
    /\ Len(delivered) = 2
    /\ delivered[1].pass # delivered[2].pass
    /\ delivered[1].file = delivered[2].file /\ delivered[1].rec = delivered[2].rec

\* C14: with the output directory absent at the start, every call whose
\* decode gave whole frames ends in success, however the directory tests and
\* creations of the workers interleave.
C14_NoSpuriousFailure ==
    ~start_dir.exists =>
        \A k \in DOMAIN tasks :
            ( /\ tasks[k].st = "done"
              /\ tasks[k].out.ok
              /\ tasks[k].out.bytes % (target_height * target_width * 3) = 0 )
                => tasks[k].ok

\* C15: for a kept episode of L frames every start index of 0 .. L - seq_len
\* can be drawn and no other; the window holds, frame for frame, the frames
\* start .. start + seq_len - 1 of the episode, all of them inside it, and
\* the whole episode when L = seq_len.
C15_StartInRange ==
    LET L == ep_record.sequence_length
        sl == ep_args.seq_len
        fs == ep_args.image_h * ep_args.image_w * ep_args.image_c
    IN  /\ ep_pc = "kept" =>
             \A s \in 0..(L - sl) : ENABLED (ProcessEpisode /\ ep_start' = s)
        /\ ep_pc = "window" =>
             /\ 0 <= ep_start /\ ep_start + sl <= L
             /\ L = sl => ep_start = 0
             /\ Len(ep_window.data) = sl * fs
             /\ \A i \in 1..(sl * fs) :
                  ep_window.data[i].num = ep_record.raw_video[ep_start * fs + i]

C15_Witness ==
    /\ ep_pc = "window"
    /\ ep_start = ep_record.sequence_length - ep_args.seq_len
    /\ ep_start = 2

\* C16: a call gets past the reshape only with a byte count that is a whole
\* number of frames, and its frame count is that number; an episode file
\* changes only by the save of such a call and then holds that many frames;
\* a call whose byte count is no whole number of frames writes nothing and
\* ends in failure.
C16_WholeFrames ==
    /\ [](\A k \in DOMAIN tasks :
            LET fs == target_height * target_width * 3
            IN  /\ (tasks[k].st \in {"check", "mkdir", "save"} \/ tasks[k].ok) =>
                     /\ tasks[k].out.ok
                     /\ tasks[k].n_frames * fs = tasks[k].out.bytes
                     /\ tasks[k].n_frames = tasks[k].out.bytes \div fs
                /\ tasks[k].out.bytes % fs # 0 =>
                     /\ tasks[k].st \in {"queued", "done"}
                     /\ ~tasks[k].ok)
    /\ [][\A f \in DOMAIN out_dir'.files :
            ( /\ f.ext = "npy" /\ f.stem # "metadata"
              /\ (f \in DOMAIN out_dir.files => out_dir'.files[f] # out_dir.files[f]) )
                => \E k \in DOMAIN tasks :
                     /\ tasks[k].st = "save" /\ tasks'[k].st = "done" /\ tasks'[k].ok
                     /\ f.stem = tasks[k].in_filename.stem
                     /\ out_dir'.files[f].shape[1] * target_height * target_width * 3
                          = tasks[k].out.bytes
         ]_vars

C16_Witness ==
    \E k, j \in DOMAIN tasks :
        /\ tasks[k].st = "done" /\ tasks[k].ok /\ tasks[k].n_frames = 2
        /\ tasks[j].st = "done" /\ ~tasks[j].ok /\ tasks[j].out.ok
        /\ tasks[j].out.bytes % (target_height * target_width * 3) # 0
        /\ [stem |-> tasks[j].in_filename.stem, ext |-> "npy"] \notin DOMAIN out_dir.files

\* The windows handed to the batch stage by a step: the one appended to the
\* batch under construction, or the one that completed a batch.
HandedOn(w) ==
    \/ acc' = Append(acc, w)
    \/ /\ acc' = <<>>
       /\ Len(prefetch') = Len(prefetch) + 1
       /\ prefetch'[Len(prefetch')] = [kind |-> "batch", windows |-> Append(acc, w)]

\* C17: without a shuffle buffer (size 0) a window goes to the batch stage in
\* the step that makes it; with one, the buffer never holds more than
\* shuffle_buffer_size windows, all of the current pass; a window enters it
\* once, when its record is read, and leaves it once, for the batch stage,
\* and only when the buffer is full or nothing is left upstream; a pass ends
\* with the buffer empty.
C17_ShuffleBuffer ==
    /\ [](/\ Cardinality(buf) <= args.shuffle_buffer_size
          /\ \A w \in buf : w.pass = pass)
    /\ [][/\ pass' # pass => buf = {} /\ buf' = {}
          /\ buf' # buf =>
               \/ \E s \in open :
                    /\ s \notin open'
                    /\ [file |-> s.file, rec |-> s.pos, pass |-> pass] \notin buf
                    /\ buf' = buf \cup { [file |-> s.file, rec |-> s.pos, pass |-> pass] }
                    /\ acc' = acc /\ prefetch' = prefetch
               \/ \E w \in buf :
                    /\ buf' = buf \ {w}
                    /\ HandedOn(w)
                    /\ \/ Cardinality(buf) = args.shuffle_buffer_size
                       \/ open = {} /\ nextFile > Len(shard)
          /\ \A w \in AllWindows' :
               HandedOn(w) =>
                 IF args.shuffle_buffer_size > 0
                 THEN w \in buf /\ buf' = buf \ {w}
                 ELSE \E s \in open :
                        s \notin open' /\ w = [file |-> s.file, rec |-> s.pos, pass |-> pass]
         ]_vars

C17_Witness ==
    /\ args.shuffle_buffer_size = 2 /\ args.cycle_length = 1
    /\ Len(delivered) = 2
    /\ delivered[1].file = delivered[2].file /\ delivered[1].pass = delivered[2].pass
    /\ delivered[1].rec > delivered[2].rec
    /\ Cardinality(buf) = 2

\* C18: every video of the listing gets a call; a failed call leaves the
\* calls still queued free to start; the manifest is in the directory, and
\* the indexing stage under way or over, only when every call has returned
\* and its outcome is among the results.
C18_JoinBarrier ==
    LET videos == { i \in DOMAIN listing : listing[i].name.ext \in {"mp4", "webm"} }
        finished == \A k \in DOMAIN tasks : tasks[k].st = "done"
        manifest == [stem |-> "failed_videos", ext |-> "json"]
    IN  /\ mpc \notin {"start", "idle"} => Len(tasks) = Cardinality(videos)
        /\ mpc = "convert" =>
             \A k \in DOMAIN tasks :
                 ( /\ tasks[k].st = "queued"
                   /\ \E j \in DOMAIN tasks : tasks[j].st = "done" /\ ~tasks[j].ok
                   /\ Cardinality({ j \in DOMAIN tasks : tasks[j].st \in {"check", "mkdir", "save"} })
                        < num_cpus )
                     => ENABLED Decode(k)
        /\ manifest \in DOMAIN out_dir.files =>
             /\ finished
             /\ Len(results) = Len(tasks)
             /\ \A k \in DOMAIN tasks : results[k] = <<tasks[k].in_filename, tasks[k].ok>>
        /\ (mpc \in {"index", "save", "write", "done", "LoadError"} \/ itasks # <<>>) =>
             /\ finished
             /\ manifest \in DOMAIN out_dir.files

C18_Witness ==
    /\ mpc = "index"
    /\ Len(results) = 2 /\ ~results[1][2] /\ results[2][2]
    /\ [stem |-> "failed_videos", ext |-> "json"] \in DOMAIN out_dir.files
    /\ \E k \in DOMAIN itasks : itasks[k].st = "ok"

\* The records of the rank's shard, as <<file, position>>.
ShardRecords ==
    UNION { { <<shard[i], r>> : r \in DOMAIN disk[shard[i]] } : i \in DOMAIN shard }

\* The records read so far in the current pass: all of a file that was
\* opened and is closed again, those before the position of an open one.
ReadSoFar ==
    { fr \in ShardRecords :
        /\ \E i \in DOMAIN shard : i < nextFile /\ shard[i] = fr[1]
        /\ \A s \in open : s.file = fr[1] => fr[2] < s.pos }

\* A record that parses into an episode of seq_len frames or more.
Usable(fr) ==
    LET rec == disk[fr[1]][fr[2]]
    IN  /\ rec.raw_len = rec.sequence_length * image_h * image_w * image_c
        /\ rec.sequence_length >= args.seq_len

\* C19: the windows of a rank's stream come from usable episodes of the
\* files at the rank's own list positions; within a pass no record is read
\* twice, reading a usable episode makes exactly one window, of that episode
\* and that pass, and reading any other record makes none; a pass ends only
\* when every record of the shard has been read and the shuffle buffer is
\* empty, so no window of the next pass gets ahead of one of this pass.
C19_OneWindowPerEpisode ==
    /\ [](/\ \A w \in AllWindows :
               /\ \E j \in DOMAIN args.tfrecord_paths :
                    (j - 1) % num_processes = process_id /\ args.tfrecord_paths[j] = w.file
               /\ Usable(<<w.file, w.rec>>)
          /\ \A w \in buf : w.pass = pass)
    /\ [][/\ pass' # pass =>
               /\ ReadSoFar = ShardRecords /\ ReadSoFar' = {}
               /\ buf = {} /\ buf' = {}
          /\ pass' = pass =>
               /\ ReadSoFar \subseteq ReadSoFar'
               /\ Cardinality(ReadSoFar' \ ReadSoFar) <= 1
               /\ \A fr \in ReadSoFar' \ ReadSoFar :
                    LET w == [file |-> fr[1], rec |-> fr[2], pass |-> pass]
                    IN  IF Usable(fr)
                        THEN \/ w \notin buf /\ buf' = buf \cup {w} /\ acc' = acc
                             \/ buf' = buf /\ HandedOn(w)
                        ELSE buf' = buf /\ (acc' = acc \/ acc' = <<>>)
               /\ ReadSoFar' = ReadSoFar =>
                    /\ buf' \subseteq buf
                    /\ \A w \in AllWindows' : HandedOn(w) => w \in buf
         ]_vars

C19_Witness ==
    /\ num_processes = 2 /\ process_id = 1
    /\ Len(args.tfrecord_paths) = 2
    /\ \E r \in DOMAIN disk[args.tfrecord_paths[1]] : Usable(<<args.tfrecord_paths[1], r>>)
    /\ Len(delivered) = 1
    /\ delivered[1].file = args.tfrecord_paths[2]
    /\ delivered[1].rec = 2 /\ delivered[1].pass = 1
    /\ disk[args.tfrecord_paths[2]][1].sequence_length >= args.seq_len

\* The number of videos the first pool reported as transcoded.
Successes == Cardinality({ k \in DOMAIN results : results[k][2] })

\* C20: in a run that found no files in the output directory, no two calls
\* are at their save with the same output path, and once the job is done
\* the index has as many entries as videos were reported transcoded.
C20_DistinctOutputs ==
    DOMAIN start_dir.files = {} =>
        /\ \A k, j \in DOMAIN tasks :
             (k # j /\ tasks[k].st = "save" /\ tasks[j].st = "save")
                 => tasks[k].in_filename.stem # tasks[j].in_filename.stem
        /\ mpc = "done" =>
             Len(out_dir.files[MetadataName].value) = Successes

\* The second part of C20 alone.
C20_IndexCountsSuccesses ==
    (DOMAIN start_dir.files = {} /\ mpc = "done") =>
        Len(out_dir.files[MetadataName].value) = Successes

====
